---- MODULE Spec2Model ----
(***************************************************************************)
(* Model of evalml/automl/engine/engine_base.py: train_and_score_pipeline  *)
(* (cross-validation loop, per-fold failure containment, missing-class     *)
(* check, target re-encoding, holdout pass, result aggregation).           *)
(*                                                                         *)
(* Values: a score is a natural number; np.nan is the sentinel NaN; a      *)
(* threshold is a string, Python's None being the string "None"; an        *)
(* absent y_holdout is the empty sequence; an OrderedDict is a sequence    *)
(* of <<key, value>> pairs in insertion order; a row-index tuple is a      *)
(* sequence of row positions.                                              *)
(***************************************************************************)
EXTENDS Integers, Sequences, FiniteSets, TLC

\* ---------------------------------------------------------------- bounds
\* The largest number of folds the data splitter emits.
MaxFolds == 2

\* The largest number of log calls the jobs make together, and the largest
\* number of write_to_logger calls.
MaxLogs == 3
MaxWrites == 2

\* ---------------------------------------------------------------- values
NaN == 0 - 1
None == "None"
NoY == <<>>

\* Scores the objectives can return (the primary objective "P", an
\* additional objective "A"), thresholds a fitted pipeline can carry.
Scores == {1, 2, 3}
Thresholds == {"t1"}

\* Targets of the caller (5 rows), holdout targets (3 rows), and the
\* (train, valid) row selectors a data splitter can emit.
Targets == { <<1, 0, 1, 0, 1>>, <<1, 1, 1, 1, 0>>, <<2, 2, 2, 0, 1>> }
HoldoutTargets == { <<0, 0, 1>>, <<1, 1, 0>> }
SplitPairs == { << <<1, 2, 3>>, <<4, 5>> >>,
                << <<1, 2, 3, 4>>, <<5>> >> }

\* ------------------------------------------------------- sequence helpers
Range(s) == { s[n] : n \in 1..Len(s) }

Slice(y, idx) == [ n \in 1..Len(idx) |-> y[idx[n]] ]

Count(y, v) == Cardinality({ n \in 1..Len(y) : y[n] = v })

RECURSIVE SumSeq(_)
SumSeq(s) == IF s = <<>> THEN 0 ELSE Head(s) + SumSeq(Tail(s))

FullIndex(y) == [ n \in 1..Len(y) |-> n ]

\* ------------------------------------------------------------ OrderedDict
ODKeys(d) == [ n \in 1..Len(d) |-> d[n][1] ]

ODHas(d, k) == \E n \in 1..Len(d) : d[n][1] = k

ODGet(d, k) == d[CHOOSE n \in 1..Len(d) : d[n][1] = k][2]

\* Mutant: d.setdefault(k, v), the first value stored under a key stays.
ODSetDefault(d, k, v) == IF ODHas(d, k) THEN d ELSE Append(d, <<k, v>>)

\* d[k] = v: an existing key keeps its position, a new key goes last.
ODSet(d, k, v) ==
    IF ODHas(d, k)
    THEN [ n \in 1..Len(d) |-> IF d[n][1] = k THEN <<k, v>> ELSE d[n] ]
    ELSE Append(d, <<k, v>>)

\* d.update(e)
RECURSIVE ODUpdate(_, _)
ODUpdate(d, e) ==
    IF e = <<>> THEN d
    ELSE ODUpdate(ODSet(d, Head(e)[1], Head(e)[2]), Tail(e))

\* ---------------------------------------------------------- problem types
ProblemTypes == {"binary", "multiclass", "regression"}

is_binary(pt) == pt = "binary"

is_classification(pt) == pt \in {"binary", "multiclass"}

BinaryOrMulticlass(pt) == pt \in {"binary", "multiclass"}

\* ------------------------------------------------------- target encoding
\* y.value_counts().index: the distinct labels by descending frequency;
\* pandas leaves the order of equally frequent labels open.
ValueCountsIndex(y) ==
    { o \in [1..Cardinality(Range(y)) -> Range(y)] :
        /\ \A a, b \in DOMAIN o : a # b => o[a] # o[b]
        /\ \A a, b \in DOMAIN o : a < b => Count(y, o[a]) >= Count(y, o[b]) }

\* y_mapping[original_target] = encoded_target, from enumerate(order).
YMapping(order, label) == (CHOOSE n \in DOMAIN order : order[n] = label) - 1

\* _encode_classification_target(y), given the value_counts order.
EncodeClassificationTarget(y, order) ==
    [ n \in 1..Len(y) |-> YMapping(order, y[n]) ]

\* np.setdiff1d(full, part) as a set.
SetDiff(full, part) == Range(full) \ Range(part)

\* ----------------------------------------------------------- objectives
Primary == "P"

Objectives(c) == <<Primary>> \o c.additional_objectives

Names(seq) == Range(seq)

\* The scores objective n can return.
ObjectiveScores(n) == IF n = Primary THEN {1, 2} ELSE {3}

\* ------------------------------------------------- outcomes of one pass
\* What the collaborators do in one pass: train_pipeline returns a fitted
\* clone with some threshold or raises; pipeline.score returns a score per
\* objective, raises PipelineScoreError when some objectives raise (res is
\* NaN exactly for those), or raises another exception (exn).
ThresholdsOf(c) == IF is_binary(c.problem_type) THEN Thresholds \cup {None} ELSE {None}

AllFail(c) == [ o \in Names(Objectives(c)) |-> NaN ]

Outcomes(c) ==
    { [train |-> FALSE, threshold |-> None, exn |-> FALSE, res |-> AllFail(c)] }
    \cup { [train |-> TRUE, threshold |-> t, exn |-> TRUE, res |-> AllFail(c)] :
             t \in ThresholdsOf(c) }
    \cup { [train |-> TRUE, threshold |-> t, exn |-> FALSE, res |-> r] :
             t \in ThresholdsOf(c),
             r \in { f \in [Names(Objectives(c)) -> Scores \cup {NaN}] :
                        \A n \in DOMAIN f : f[n] \in ObjectiveScores(n) \cup {NaN} } }

\* e.exceptions of the PipelineScoreError, and e.scored_successfully.
Exceptions(o) == { n \in DOMAIN o.res : o.res[n] = NaN }

IsPipelineScoreError(o) == o.train /\ ~o.exn /\ Exceptions(o) # {}

\* The try block of _train_and_score ended in the except clause.
Failed(o) == ~o.train \/ o.exn \/ Exceptions(o) # {}

\* ------------------------------------------------------ _train_and_score
FoldNone == 0 - 2
Unbound == 0 - 1

\* prefix = f"Fold {i}" if i is not None else "Full training data pipeline"
Prefix(iv) ==
    IF iv # FoldNone THEN [kind |-> "Fold", n |-> iv]
    ELSE [kind |-> "Full training data pipeline", n |-> FoldNone]

NoPrefix == [kind |-> "", n |-> FoldNone]

Msg(level, prefix, text) == [level |-> level, prefix |-> prefix, text |-> text]

\* The logger.debug calls of the try block, up to the statement that raised.
PassLogs(c, iv, o) ==
    <<Msg("debug", Prefix(iv), "starting training")>>
    \o (IF o.train THEN <<Msg("debug", Prefix(iv), "finished training")>> ELSE <<>>)
    \o (IF o.train /\ c.optimize_thresholds /\ is_binary(c.problem_type)
           /\ o.threshold # None
        THEN <<Msg("debug", Prefix(iv), "Optimal threshold found")>> ELSE <<>>)
    \o (IF o.train THEN <<Msg("debug", Prefix(iv), "Scoring trained pipeline")>> ELSE <<>>)
    \o (IF ~Failed(o) THEN <<Msg("debug", Prefix(iv), "score")>> ELSE <<>>)

\* The dict pipeline.score returns, in the order of objectives_to_score.
ScoreDict(c, o) ==
    [ n \in 1..Len(Objectives(c)) |-> <<Objectives(c)[n], o.res[Objectives(c)[n]]>> ]

\* Mutant: a PipelineScoreError is handled like any other exception, every
\* objective becomes NaN.
PartialScoresAllNaN(c, o) ==
    [ n \in 1..Len(Objectives(c)) |-> <<Objectives(c)[n], NaN>> ]

\* scores = {**nan_scores, **e.scored_successfully}, then re-keyed in the
\* order [objective] + additional_objectives.
PartialScores(c, o) ==
    LET nan_scores == { <<n, NaN>> : n \in Exceptions(o) }
        scored_successfully ==
            { <<n, o.res[n]>> : n \in DOMAIN o.res \ Exceptions(o) }
        merged(n) ==
            IF \E kv \in scored_successfully : kv[1] = n
            THEN (CHOOSE kv \in scored_successfully : kv[1] = n)[2]
            ELSE (CHOOSE kv \in nan_scores : kv[1] = n)[2]
    IN  [ n \in 1..Len(Objectives(c)) |-> <<Objectives(c)[n], merged(Objectives(c)[n])>> ]

\* Mutant: the additional objectives are left out.
NanScoresEmpty(c) == <<>>

\* OrderedDict(zip(additional names, [np.nan] * len(additional)))
NanScores(c) ==
    [ n \in 1..Len(c.additional_objectives) |-> <<c.additional_objectives[n], NaN>> ]

\* The scores that _train_and_score returns.
PassScores(c, o) ==
    IF ~Failed(o) THEN ScoreDict(c, o)
    ELSE IF IsPipelineScoreError(o) THEN PartialScores(c, o)
    ELSE NanScores(c)

\* The score that _train_and_score returns.
PassScore(c, o) ==
    IF ~Failed(o) THEN ODGet(ScoreDict(c, o), Primary)
    ELSE IF IsPipelineScoreError(o) THEN ODGet(PartialScores(c, o), Primary)
    ELSE NaN

\* Mutant: fit and threshold tuning are called on the pipeline passed in.
FitTargetOriginal(orig, cloneId) == orig.id

\* cv_pipeline = pipeline.clone(); cv_pipeline.fit(X, y);
\* tune_binary_threshold(cv_pipeline, ...): the object that is fitted and
\* tuned is the clone.
FitTarget(orig, cloneId) == cloneId

\* The caller's pipeline object after one call of train_pipeline: fit and
\* threshold tuning change the object they are called on.
CallerPipelineAfterTrain(orig, o, cloneId) ==
    IF o.train /\ FitTarget(orig, cloneId) = orig.id
    THEN [orig EXCEPT !.fitted = TRUE, !.threshold = o.threshold]
    ELSE orig

\* fitted_pipeline: the clone train_pipeline returned, else the pipeline
\* passed in by the caller.
PassPipeline(orig, o, cloneId) ==
    IF o.train THEN [id |-> cloneId, fitted |-> TRUE, threshold |-> o.threshold]
    ELSE orig

\* Mutant: stored_pipeline keeps the last pipeline that was fitted.
RebindStoredIfFitted(stored, fitted_pipeline) ==
    IF fitted_pipeline.fitted THEN fitted_pipeline ELSE stored

\* "score, scores, stored_pipeline = _train_and_score(...)": stored_pipeline
\* is rebound to what the pass returned, whatever it held before.
RebindStored(stored, fitted_pipeline) == fitted_pipeline

\* hash(tuple(X.index)) of the training slice.
XHash(train) == train

\* Mutant: the cache is written whatever the pass did.
PassCacheAlways(cache, train, o, cloneId) == ODSet(cache, XHash(train), cloneId)

\* pipeline_cache[hashes] = ...component_instances, the last statement of try.
PassCache(cache, train, o, cloneId) ==
    IF ~Failed(o) THEN ODSet(cache, XHash(train), cloneId) ELSE cache

\* Mutant: only PipelineScoreError is caught.
CaughtScoreErrorOnly(o) == IsPipelineScoreError(o)

\* "except Exception as e" catches every failure of the try block.
Caught(o) == Failed(o)

\* The error callback is called in the except clause when one is configured.
CallbackCalled(c, o) == Caught(o) /\ c.error_callback # None

ExceptionKind(o) ==
    IF ~o.train THEN "training"
    ELSE IF o.exn THEN "scoring"
    ELSE "PipelineScoreError"

\* One call of the error callback: its fold_num, exception and pipeline
\* arguments, and the pass (call of _train_and_score) that made it.
CallbackCall(iv, o, orig, pass) ==
    [fold_num |-> iv, exception |-> ExceptionKind(o), pipeline |-> orig.id,
     pass |-> pass]

\* ------------------------------------------------------------ aggregation
\* pd.Series(...).mean(): pandas skips NaN (skipna=True); the mean of no
\* values is NaN.  A mean is kept as the fraction num/den.
SeriesMean(s) ==
    LET vals == SelectSeq(s, LAMBDA v : v # NaN)
    IN  IF vals = <<>> THEN [nan |-> TRUE, num |-> 0, den |-> 0]
        ELSE [nan |-> FALSE, num |-> SumSeq(vals), den |-> Len(vals)]

\* Mutant: the two row counts are stored before the scores.
OrderedScoresCountsFirst(score, scores, train, valid) ==
    ODUpdate(ODSet(ODSet(ODSet(<<>>, "# Training", Len(train)),
                         "# Validation", Len(valid)),
                   Primary, score),
             scores)

\* ordered_scores of one fold.
OrderedScores(score, scores, train, valid) ==
    ODSet(ODSet(ODUpdate(ODSet(<<>>, Primary, score), scores),
                "# Training", Len(train)),
          "# Validation", Len(valid))

\* binary_classification_threshold of one fold's entry.
EntryThreshold(c, sp) ==
    IF is_binary(c.problem_type) /\ sp.threshold # None THEN sp.threshold ELSE None

EvaluationEntry(c, score, scores, sp, train, valid) ==
    [all_objective_scores |-> OrderedScores(score, scores, train, valid),
     mean_cv_score |-> score,
     binary_classification_threshold |-> EntryThreshold(c, sp)]

\* ------------------------------------------------------------------ state
VARIABLES
    cfg,              \* automl_config and the holdout arguments
    pipeline,         \* the pipeline object the caller passed in
    pc,               \* position in train_and_score_pipeline
    full_y_train,     \* the target, re-encoded for classification
    y_holdout,        \* the holdout target, re-encoded for classification
    use_holdout,
    i,                \* the loop variable of the fold loop
    emitted,          \* the (train, valid) pairs the splitter has emitted
    cv_data,
    cv_scores,
    cv_score_mean,
    holdout_score,
    holdout_scores,
    pipeline_cache,
    stored_pipeline,
    logs,             \* logger.logs
    callbacks,        \* the calls of automl_config.error_callback
    passes,           \* the calls of train_pipeline
    exc,              \* the exception that left train_and_score_pipeline
    result            \* the returned dict

\* The job loggers of an engine: the JobLogger objects setup_job_log has
\* created, the logger each job holds, and what has been observed of them.
VARIABLES
    loggers,          \* JobLogger objects in creation order: their self.logs
    job_logger,       \* the JobLogger each job got from setup_job_log (0: none yet)
    sent,             \* per job, the log calls it has made, in call order
    writes,           \* the write_to_logger calls, with the calls each made on L
    call              \* the last call of train_pipeline or score_pipeline a
                      \* training or scoring job made on its own, and how it ended

jobVars == <<loggers, job_logger, sent, writes, call>>

vars == <<cfg, pipeline, pc, full_y_train, y_holdout, use_holdout, i, emitted,
          cv_data, cv_scores, cv_score_mean, holdout_score, holdout_scores,
          pipeline_cache, stored_pipeline, logs, callbacks, passes, exc, result,
          jobVars>>

NoExc == [kind |-> "none", train |-> {}, valid |-> {}]

\* An exception of the try block that the except clause does not catch.
Uncaught == [kind |-> "uncaught", train |-> {}, valid |-> {}]

NoDict == [kind |-> "nan", items |-> <<>>]

\* The inputs of one evaluation.  What an input cannot influence is held
\* fixed: a regression target is never inspected; optimize_thresholds (it
\* only adds a log line) and the caller's pipeline threshold are read for
\* binary problems only.  The additional objective, the second holdout target
\* and a holdout argument given without the other are tried on multiclass
\* problems.
Configs ==
    { c \in [problem_type : ProblemTypes,
             additional_objectives : {<<>>, <<"A">>},
             error_callback : {None, "callback"},
             optimize_thresholds : BOOLEAN,
             y : Targets,
             X_holdout : {None, "X_holdout"},
             y_holdout : {NoY} \cup HoldoutTargets] :
        /\ c.additional_objectives = (IF c.problem_type = "multiclass" THEN <<"A">> ELSE <<>>)
        /\ c.optimize_thresholds => is_binary(c.problem_type) /\ c.error_callback = None
        /\ c.problem_type = "regression" => c.y = <<1, 0, 1, 0, 1>>
        /\ c.problem_type = "binary" => c.y # <<2, 2, 2, 0, 1>>
        /\ c.problem_type # "multiclass" =>
             /\ c.y_holdout \in {NoY, <<0, 0, 1>>}
             /\ c.X_holdout = None <=> c.y_holdout = NoY
        /\ c.X_holdout = None => c.y_holdout \in {NoY, <<0, 0, 1>>} }

\* The threshold the caller's pipeline carries.
PipelineThresholds(c) ==
    IF is_binary(c.problem_type) /\ ~c.optimize_thresholds
    THEN Thresholds \cup {None} ELSE {None}

\* How a call of train_pipeline or score_pipeline ended: the collaborator
\* calls it made, the exception that left it ("none" when it returned), the
\* calls of the error callback it made, and what it returned.
Ended(op, input, trace, raised, value) ==
    [op |-> op, input |-> input, trace |-> trace, raised |-> raised,
     callback_calls |-> 0, value |-> value]

NoCall == Ended("none", <<>>, <<>>, "none", <<>>)

\* The jobs an engine runs side by side.
Jobs == {"a", "b"}

\* No job has asked for a logger yet.
JobInit ==
    /\ loggers = <<>>
    /\ job_logger = [ j \in Jobs |-> 0 ]
    /\ sent = [ j \in Jobs |-> <<>> ]
    /\ writes = <<>>
    /\ call = NoCall

Init ==
    /\ JobInit
    /\ cfg \in Configs
    /\ pipeline \in [id : {0}, fitted : {FALSE}, threshold : PipelineThresholds(cfg)]
    /\ pc = "start"
    /\ full_y_train = cfg.y
    /\ y_holdout = cfg.y_holdout
    /\ use_holdout = FALSE
    /\ i = Unbound
    /\ emitted = <<>>
    /\ cv_data = <<>>
    /\ cv_scores = <<>>
    /\ cv_score_mean = SeriesMean(<<>>)
    /\ holdout_score = NaN
    /\ holdout_scores = NoDict
    /\ pipeline_cache = <<>>
    /\ stored_pipeline = pipeline
    /\ logs = <<>>
    /\ callbacks = <<>>
    /\ passes = <<>>
    /\ exc = NoExc
    /\ result = <<>>

NoneScore == 0 - 3

\* Lines 374-387: the returned dict (training_time left out).
ReturnValue(data, series, mean, hs, hss, cache, sp) ==
    [cv_data |-> data,
     cv_scores |-> series,
     cv_score_mean |-> mean,
     holdout_score |-> IF ~use_holdout THEN NoneScore ELSE hs,
     holdout_scores |-> IF ~use_holdout THEN [kind |-> "None", items |-> <<>>] ELSE hss,
     cached_data |-> cache,
     pipeline |-> sp]

\* ---------------------------------------------------------------- actions
\* Lines 287-298: use_holdout, the first log line, the re-encoding of the
\* targets, the empty cache.
Start ==
    /\ pc = "start"
    /\ use_holdout' = (cfg.X_holdout # None /\ cfg.y_holdout # NoY)
    /\ logs' = Append(logs, Msg("info", NoPrefix, "Starting cross validation"))
    /\ IF is_classification(cfg.problem_type)
       THEN /\ \E order \in ValueCountsIndex(full_y_train) :
                 full_y_train' = EncodeClassificationTarget(full_y_train, order)
            /\ IF use_holdout'
               THEN \E order \in ValueCountsIndex(y_holdout) :
                      y_holdout' = EncodeClassificationTarget(y_holdout, order)
               ELSE y_holdout' = y_holdout
       ELSE UNCHANGED <<full_y_train, y_holdout>>
    /\ pc' = "loop"
    /\ UNCHANGED <<jobVars, cfg, pipeline, i, emitted, cv_data, cv_scores, cv_score_mean,
                   holdout_score, holdout_scores, pipeline_cache, stored_pipeline,
                   callbacks, passes, exc, result>>

\* Mutant: the validation slice is not checked.
DiffValidUnchecked(pair) == {}

\* diff_train and diff_valid of lines 306-311 (empty when the check is skipped).
DiffTrain(pair) ==
    IF BinaryOrMulticlass(cfg.problem_type)
    THEN SetDiff(full_y_train, Slice(full_y_train, pair[1])) ELSE {}

DiffValid(pair) ==
    IF BinaryOrMulticlass(cfg.problem_type)
    THEN SetDiff(full_y_train, Slice(full_y_train, pair[2])) ELSE {}

FoldLog(iv) == Msg("debug", NoPrefix, "Training and scoring on fold")

\* One call of _train_and_score: the rows trained on, the slice scored on
\* ("valid" rows of a fold or the "holdout" set) and what the collaborators did.
PassRecord(train, kind, rows, o) ==
    [train |-> train, score_on |-> kind, rows |-> rows, outcome |-> o]

\* Mutant: the entry is put in front.
CvDataPrepend(data, entry) == <<entry>> \o data

\* cv_data.append(evaluation_entry)
CvDataAppend(data, entry) == Append(data, entry)

\* The splitter emits one more pair.
Emits(pair) ==
    /\ pc = "loop"
    /\ Len(emitted) < MaxFolds
    /\ pair \in SplitPairs
    /\ emitted' = Append(emitted, pair)
    /\ i' = Len(emitted)

\* Lines 303-323: a slice lacks a target value, the evaluation raises.
FoldMissingClass(pair) ==
    /\ Emits(pair)
    /\ DiffTrain(pair) # {} \/ DiffValid(pair) # {}
    /\ logs' = Append(logs, FoldLog(i'))
    /\ exc' = [kind |-> "missing", train |-> DiffTrain(pair), valid |-> DiffValid(pair)]
    /\ pc' = "raised"
    /\ UNCHANGED <<jobVars, cfg, pipeline, full_y_train, y_holdout, use_holdout, cv_data,
                   cv_scores, cv_score_mean, holdout_score, holdout_scores,
                   pipeline_cache, stored_pipeline, callbacks, passes, result>>

\* Lines 303-352: one fold, trained and scored or failed and contained.
FoldPass(pair, o) ==
    /\ Emits(pair)
    /\ DiffTrain(pair) = {} /\ DiffValid(pair) = {}
    /\ o \in Outcomes(cfg)
    /\ logs' = Append(logs, FoldLog(i')) \o PassLogs(cfg, i', o)
    /\ passes' = Append(passes, PassRecord(pair[1], "valid", pair[2], o))
    /\ IF Failed(o) /\ ~Caught(o)
       THEN /\ exc' = Uncaught
            /\ pc' = "raised"
            /\ UNCHANGED <<pipeline_cache, callbacks, stored_pipeline, cv_data>>
       ELSE LET cloneId == Len(passes) + 1
                sp == PassPipeline(pipeline, o, cloneId)
            IN  /\ pipeline_cache' = PassCache(pipeline_cache, pair[1], o, cloneId)
                /\ callbacks' =
                     IF CallbackCalled(cfg, o)
                     THEN Append(callbacks, CallbackCall(i', o, pipeline, cloneId))
                     ELSE callbacks
                /\ stored_pipeline' = RebindStored(stored_pipeline, sp)
                /\ cv_data' = CvDataAppend(cv_data,
                       EvaluationEntry(cfg, PassScore(cfg, o), PassScores(cfg, o), sp,
                                       pair[1], pair[2]))
                /\ pc' = "loop"
                /\ exc' = exc
    /\ pipeline' = CallerPipelineAfterTrain(pipeline, o, Len(passes) + 1)
    /\ UNCHANGED <<jobVars, cfg, full_y_train, y_holdout, use_holdout, cv_scores,
                   cv_score_mean, holdout_score, holdout_scores, result>>

\* Mutant: an exception of the error callback is swallowed and the
\* evaluation goes on.
SwallowCallbackError(next) == next

\* Lines 257-265: the callback is called inside the except clause with no
\* handler around it, neither in _train_and_score nor in the fold loop: its
\* exception leaves train_and_score_pipeline.
PropagateCallbackError(next) == "raised"

\* Lines 257-265 in a fold: the error callback raises, nothing contains it.
FoldCallbackRaises(pair, o) ==
    /\ Emits(pair)
    /\ DiffTrain(pair) = {} /\ DiffValid(pair) = {}
    /\ o \in Outcomes(cfg)
    /\ CallbackCalled(cfg, o)
    /\ logs' = Append(logs, FoldLog(i')) \o PassLogs(cfg, i', o)
    /\ passes' = Append(passes, PassRecord(pair[1], "valid", pair[2], o))
    /\ callbacks' = Append(callbacks, CallbackCall(i', o, pipeline, Len(passes) + 1))
    /\ exc' = [kind |-> "callback", train |-> {}, valid |-> {}]
    /\ pc' = PropagateCallbackError("loop")
    /\ pipeline' = CallerPipelineAfterTrain(pipeline, o, Len(passes) + 1)
    /\ UNCHANGED <<jobVars, cfg, full_y_train, y_holdout, use_holdout, cv_data,
                   cv_scores, cv_score_mean, holdout_score, holdout_scores,
                   pipeline_cache, stored_pipeline, result>>

\* Lines 353-360: the splitter is exhausted; without holdout data the
\* evaluation returns (lines 374-387).
FinishCV ==
    /\ pc = "loop"
    /\ cv_scores' = [ n \in 1..Len(cv_data) |-> cv_data[n].mean_cv_score ]
    /\ cv_score_mean' = SeriesMean(cv_scores')
    /\ logs' = Append(logs, Msg("info", NoPrefix, "Finished cross validation"))
    /\ holdout_score' = NaN
    /\ holdout_scores' = NoDict
    /\ pc' = IF use_holdout THEN "holdout" ELSE "done"
    /\ result' = IF use_holdout THEN result
                 ELSE ReturnValue(cv_data, cv_scores', cv_score_mean', holdout_score',
                                  holdout_scores', pipeline_cache, stored_pipeline)
    /\ UNCHANGED <<jobVars, cfg, pipeline, full_y_train, y_holdout, use_holdout, i, emitted,
                   cv_data, pipeline_cache, stored_pipeline, callbacks, passes, exc>>

HoldoutLogs ==
    <<Msg("info", NoPrefix, "Starting holdout set scoring"),
      Msg("debug", NoPrefix, "Training and scoring entire dataset")>>

\* Lines 361-387: the pass on the entire training set, scored on the holdout
\* set, and the return.  _train_and_score reads the loop variable i, not
\* its fold_num.
HoldoutPass(o) ==
    /\ pc = "holdout"
    /\ i # Unbound
    /\ o \in Outcomes(cfg)
    /\ passes' = Append(passes,
           PassRecord(FullIndex(full_y_train), "holdout", FullIndex(y_holdout), o))
    /\ IF Failed(o) /\ ~Caught(o)
       THEN /\ logs' = logs \o HoldoutLogs \o PassLogs(cfg, i, o)
            /\ exc' = Uncaught
            /\ pc' = "raised"
            /\ UNCHANGED <<pipeline_cache, callbacks, stored_pipeline, holdout_score,
                           holdout_scores, result>>
       ELSE LET cloneId == Len(passes) + 1
                train == FullIndex(full_y_train)
            IN  /\ logs' = logs \o HoldoutLogs \o PassLogs(cfg, i, o)
                       \o <<Msg("info", NoPrefix, "Finished holdout set scoring")>>
                /\ pipeline_cache' = PassCache(pipeline_cache, train, o, cloneId)
                /\ callbacks' =
                     IF CallbackCalled(cfg, o)
                     THEN Append(callbacks, CallbackCall(i, o, pipeline, cloneId))
                     ELSE callbacks
                /\ stored_pipeline' =
                     RebindStored(stored_pipeline, PassPipeline(pipeline, o, cloneId))
                /\ holdout_score' = PassScore(cfg, o)
                /\ holdout_scores' = [kind |-> "dict", items |-> PassScores(cfg, o)]
                /\ result' = ReturnValue(cv_data, cv_scores, cv_score_mean,
                                         holdout_score', holdout_scores',
                                         pipeline_cache', stored_pipeline')
                /\ pc' = "done"
                /\ exc' = exc
    /\ pipeline' = CallerPipelineAfterTrain(pipeline, o, Len(passes) + 1)
    /\ UNCHANGED <<jobVars, cfg, full_y_train, y_holdout, use_holdout, i, emitted,
                   cv_data, cv_scores, cv_score_mean>>

\* The splitter emitted no fold: i was never bound, line 221 raises NameError.
HoldoutNameError ==
    /\ pc = "holdout"
    /\ i = Unbound
    /\ logs' = logs \o HoldoutLogs
    /\ exc' = [kind |-> "NameError", train |-> {}, valid |-> {}]
    /\ pc' = "raised"
    /\ UNCHANGED <<jobVars, cfg, pipeline, full_y_train, y_holdout, use_holdout, i, emitted,
                   cv_data, cv_scores, cv_score_mean, holdout_score, holdout_scores,
                   pipeline_cache, stored_pipeline, callbacks, passes, result>>

\* Lines 257-265 in the holdout pass: the error callback raises.
HoldoutCallbackRaises(o) ==
    /\ pc = "holdout"
    /\ i # Unbound
    /\ o \in Outcomes(cfg)
    /\ CallbackCalled(cfg, o)
    /\ logs' = logs \o HoldoutLogs \o PassLogs(cfg, i, o)
    /\ passes' = Append(passes,
           PassRecord(FullIndex(full_y_train), "holdout", FullIndex(y_holdout), o))
    /\ callbacks' = Append(callbacks, CallbackCall(i, o, pipeline, Len(passes) + 1))
    /\ exc' = [kind |-> "callback", train |-> {}, valid |-> {}]
    /\ pc' = PropagateCallbackError("done")
    /\ pipeline' = CallerPipelineAfterTrain(pipeline, o, Len(passes) + 1)
    /\ UNCHANGED <<jobVars, cfg, full_y_train, y_holdout, use_holdout, i, emitted,
                   cv_data, cv_scores, cv_score_mean, holdout_score, holdout_scores,
                   pipeline_cache, stored_pipeline, result>>

Next ==
    \/ Start
    \/ \E pair \in SplitPairs : FoldMissingClass(pair)
    \/ \E pair \in SplitPairs : \E o \in Outcomes(cfg) : FoldPass(pair, o)
    \/ \E pair \in SplitPairs : \E o \in Outcomes(cfg) : FoldCallbackRaises(pair, o)
    \/ FinishCV
    \/ \E o \in Outcomes(cfg) : HoldoutPass(o)
    \/ HoldoutNameError
    \/ \E o \in Outcomes(cfg) : HoldoutCallbackRaises(o)

Spec == Init /\ [][Next]_vars

\* train_and_score_pipeline is one sequential routine: whenever a step is
\* possible, one is taken.  Progress is checked on the problem types without
\* a threshold (the threshold takes no part in the control flow).
FairInit == Init /\ ~is_binary(cfg.problem_type)

FairSpec == FairInit /\ [][Next]_vars /\ WF_vars(Next)

\* -------------------------------------------------------------- JobLogger
\* A buffered entry is the tuple <<level, message>>; a call on the target
\* logger L is a record of the method called and its argument.
Levels == {"info", "debug", "warning", "error"}

\* JobLogger.info/debug/warning/error: self.logs.append((level, msg)).
LogAppend(buffer, level, msg) == Append(buffer, <<level, msg>>)

\* Mutant: an error entry is delivered to L.error.
LoggerMethodSameName(level) == level

\* The logger_method table of write_to_logger: the method of L an entry of
\* a level is delivered to.
LoggerMethod(level) ==
    CASE level = "info" -> "info"
      [] level = "debug" -> "debug"
      [] level = "warning" -> "warning"
      [] level = "error" -> "warning"

\* The calls write_to_logger makes on L: "for level, message in self.logs".
WriteCalls(buffer) ==
    [ n \in 1..Len(buffer) |->
        [method |-> LoggerMethod(buffer[n][1]), msg |-> buffer[n][2]] ]

\* self.logs after write_to_logger: the method only reads the list.
BufferAfterWrite(buffer) == buffer

\* Mutant: every job is handed the first JobLogger that was created.
setup_job_log_shared(heap) ==
    IF heap = <<>> THEN [heap |-> <<<<>>>>, logger |-> 1]
    ELSE [heap |-> heap, logger |-> 1]

\* EngineBase.setup_job_log: "return JobLogger()", a new object whose
\* __init__ sets self.logs = [].
setup_job_log(heap) == [heap |-> Append(heap, <<>>), logger |-> Len(heap) + 1]

\* The log calls made so far, over all jobs.
RECURSIVE LogCallsOf(_)
LogCallsOf(js) ==
    IF js = {} THEN 0
    ELSE LET j == CHOOSE k \in js : TRUE
         IN  Len(sent[j]) + LogCallsOf(js \ {j})

LogCalls == LogCallsOf(Jobs)

\* Job j starts: it asks the engine for its logger.
SetupJobLog(j) ==
    /\ job_logger[j] = 0
    /\ loggers' = setup_job_log(loggers).heap
    /\ job_logger' = [job_logger EXCEPT ![j] = setup_job_log(loggers).logger]
    /\ UNCHANGED <<sent, writes, call>>

\* Job j logs its next message at some level.
Log(j, level) ==
    /\ job_logger[j] # 0
    /\ LogCalls < MaxLogs
    /\ LET msg == <<j, Len(sent[j]) + 1>>
       IN  /\ loggers' = [loggers EXCEPT ![job_logger[j]] = LogAppend(@, level, msg)]
           /\ sent' = [sent EXCEPT ![j] = Append(@, <<level, msg>>)]
    /\ UNCHANGED <<job_logger, writes, call>>

\* write_to_logger(L) is called on job j's logger.
WriteToLogger(j) ==
    /\ job_logger[j] # 0
    /\ Len(writes) < MaxWrites
    /\ writes' = Append(writes,
           [job |-> j,
            logged |-> Len(sent[j]),
            entries |-> loggers[job_logger[j]],
            calls |-> WriteCalls(loggers[job_logger[j]])])
    /\ loggers' = [loggers EXCEPT ![job_logger[j]] = BufferAfterWrite(@)]
    /\ UNCHANGED <<job_logger, sent, call>>

evalVars == <<cfg, pipeline, pc, full_y_train, y_holdout, use_holdout, i, emitted,
              cv_data, cv_scores, cv_score_mean, holdout_score, holdout_scores,
              pipeline_cache, stored_pipeline, logs, callbacks, passes, exc, result>>

JobNext ==
    \/ \E j \in Jobs : SetupJobLog(j) /\ UNCHANGED evalVars
    \/ \E j \in Jobs : \E level \in Levels : Log(j, level) /\ UNCHANGED evalVars
    \/ \E j \in Jobs : WriteToLogger(j) /\ UNCHANGED evalVars

\* The jobs and their loggers alone: no evaluation is started.
JobSpecInit ==
    /\ Init
    /\ cfg = [problem_type |-> "regression", additional_objectives |-> <<>>,
              error_callback |-> None, optimize_thresholds |-> FALSE,
              y |-> <<1, 0, 1, 0, 1>>, X_holdout |-> None, y_holdout |-> NoY]

JobSpec == JobSpecInit /\ [][JobNext]_vars

\* ----------------------------------------- train_pipeline, score_pipeline
\* The collaborators of one train_pipeline call: the pipeline passed in,
\* the row index of X, get_hashes, whether get_threshold_tuning_info asks
\* for a resplit, and what fit and tune_binary_threshold do when called
\* ("ok" or the exception raised; the threshold the tuning leaves on the
\* pipeline).
TrainInputs ==
    [pipeline : [id : {0}, fitted : {FALSE}, threshold : Thresholds \cup {None}],
     X_index : { pair[1] : pair \in SplitPairs },
     get_hashes : BOOLEAN,
     data_needs_resplitting : BOOLEAN,
     fit : {"ok", "FitError"},
     tune : {"ok", "TuneError"},
     threshold : Thresholds \cup {None}]

NoHash == <<>>

\* resplit_training_data: the rows kept for fitting, the last row being
\* carved out for threshold tuning.
Resplit(idx) == SubSeq(idx, 1, Len(idx) - 1)

\* Lines 158-163: X is rebound to the rows kept for fitting.
TrainX(inp) ==
    IF inp.data_needs_resplitting THEN Resplit(inp.X_index) ELSE inp.X_index

\* The collaborator calls of train_pipeline that come before the clone.
TrainPrelude(inp) ==
    <<"get_threshold_tuning_info">>
    \o (IF inp.data_needs_resplitting THEN <<"resplit_training_data">> ELSE <<>>)

\* Mutant: a failure of fit or of the tuning is contained, the pipeline
\* passed in is returned.
train_pipeline_contained(inp, cloneId) ==
    Ended("train_pipeline", inp, TrainPrelude(inp) \o <<"clone", "fit">>, "none",
          [pipeline |-> inp.pipeline, hash |-> NoHash])

\* train_pipeline, lines 153-179: resplit when asked to, clone, fit the
\* clone, tune its threshold, return the clone (with the hash of X.index
\* when get_hashes).  No statement is inside a try block.
train_pipeline(inp, cloneId) ==
    LET cv_pipeline == [id |-> cloneId, fitted |-> FALSE,
                        threshold |-> inp.pipeline.threshold]
        fitted == [cv_pipeline EXCEPT !.fitted = TRUE]
        tuned == [fitted EXCEPT !.threshold = inp.threshold]
    IN  IF inp.fit # "ok"
        THEN Ended("train_pipeline", inp, TrainPrelude(inp) \o <<"clone", "fit">>, inp.fit,
                   [pipeline |-> cv_pipeline, hash |-> NoHash])
        ELSE IF inp.tune # "ok"
        THEN Ended("train_pipeline", inp,
                   TrainPrelude(inp) \o <<"clone", "fit", "tune_binary_threshold">>,
                   inp.tune, [pipeline |-> fitted, hash |-> NoHash])
        ELSE Ended("train_pipeline", inp,
                   TrainPrelude(inp) \o <<"clone", "fit", "tune_binary_threshold">>,
                   "none",
                   [pipeline |-> tuned,
                    hash |-> IF inp.get_hashes THEN XHash(TrainX(inp)) ELSE NoHash])

\* The collaborators of one score_pipeline call: the objectives asked for
\* and what pipeline.score does.
ScoreInputs ==
    UNION { { [additional_objectives |-> a, outcome |-> o] :
                o \in { q \in Outcomes([problem_type |-> "regression",
                                       additional_objectives |-> a]) : q.train } } :
            a \in {<<>>, <<"A">>} }

\* The exception pipeline.score raises, "none" when it returns.
ScoreRaises(o) ==
    IF o.exn THEN "ScoreError"
    ELSE IF Exceptions(o) # {} THEN "PipelineScoreError"
    ELSE "none"

\* score_pipeline, line 459: return pipeline.score(X, y, objectives, ...).
score_pipeline(inp) ==
    Ended("score_pipeline", inp, <<"score">>, ScoreRaises(inp.outcome),
          IF ScoreRaises(inp.outcome) = "none" THEN ScoreDict(inp, inp.outcome)
          ELSE <<>>)

\* A training job calls train_pipeline.
TrainPipeline(inp) ==
    /\ call' = train_pipeline(inp, 1)
    /\ UNCHANGED <<loggers, job_logger, sent, writes>>

\* A scoring job calls score_pipeline.
ScorePipeline(inp) ==
    /\ call' = score_pipeline(inp)
    /\ UNCHANGED <<loggers, job_logger, sent, writes>>

CallNext ==
    \/ \E inp \in TrainInputs : TrainPipeline(inp) /\ UNCHANGED evalVars
    \/ \E inp \in ScoreInputs : ScorePipeline(inp) /\ UNCHANGED evalVars

CallSpec == JobSpecInit /\ [][CallNext]_vars

\* ----------------------------------------------------------------- claims
Returned == pc = "done"

Raised == pc = "raised"

FoldOutcome(j) == passes[j].outcome

HoldoutPassRan == \E n \in 1..Len(passes) : passes[n].score_on = "holdout"

EntryScore(j, name) == ODGet(cv_data[j].all_objective_scores, name)

\* C1: the returned cv_data has exactly one entry per fold the splitter
\* emitted, and entry j is the entry of the j-th emitted (train, valid)
\* pair: it carries that pair's training and validation sizes.
C1_CvDataInSplitterOrder ==
    Returned =>
        /\ Len(result.cv_data) = Len(emitted)
        /\ \A j \in 1..Len(emitted) :
             LET scores == result.cv_data[j].all_objective_scores
             IN  /\ ODHas(scores, "# Training")
                 /\ ODHas(scores, "# Validation")
                 /\ ODGet(scores, "# Training") = Len(emitted[j][1])
                 /\ ODGet(scores, "# Validation") = Len(emitted[j][2])
                 /\ passes[j].train = emitted[j][1]
                 /\ result.cv_data[j].mean_cv_score = PassScore(cfg, FoldOutcome(j))

\* C1 witness: a result over two different folds, the first of which failed.
C1_Witness ==
    /\ Returned
    /\ Len(emitted) = 2
    /\ emitted[1] # emitted[2]
    /\ Failed(FoldOutcome(1))
    /\ ~Failed(FoldOutcome(2))

\* A fold's training or scoring raised.
FoldRaised ==
    \E n \in 1..Len(passes) :
        passes[n].score_on = "valid" /\ Failed(passes[n].outcome)

\* C2: an exception of a fold's training or scoring is not propagated.
\* Unless the error callback raises, the evaluation goes on after it: every
\* fold the splitter emits is handed to training (and scored when training
\* succeeds), a returned evaluation has run the holdout pass when holdout
\* data was supplied, and the call eventually returns; only a missing class
\* in a later fold or a raising error callback ends it otherwise.
C2_FoldFailureContained ==
    /\ [](exc.kind \notin {"missing", "callback"} =>
            /\ Len(passes) >= Len(emitted)
            /\ \A j \in 1..Len(emitted) :
                 /\ passes[j].score_on = "valid"
                 /\ passes[j].train = emitted[j][1]
                 /\ passes[j].rows = emitted[j][2])
    /\ []((Returned /\ use_holdout) => HoldoutPassRan)
    /\ []((FoldRaised /\ exc.kind # "callback") =>
            <>(Returned \/ (Raised /\ exc.kind \in {"missing", "callback"})))

\* C2 witness: the first fold failed in training, a second fold and the
\* holdout pass ran after it, and the evaluation returned.
C2_Witness ==
    /\ Returned
    /\ Len(emitted) = 2
    /\ ~FoldOutcome(1).train
    /\ ~Failed(FoldOutcome(2))
    /\ use_holdout
    /\ Len(passes) = 3
    /\ passes[3].score_on = "holdout"

NonPartialFailure(o) == Failed(o) /\ ~IsPipelineScoreError(o)

CallbacksOfPass(n) == { m \in 1..Len(callbacks) : callbacks[m].pass = n }

\* C3: a fold whose training or scoring raised an exception other than
\* PipelineScoreError has NaN for the primary and for every additional
\* objective, and the configured error callback was called exactly once for
\* it, with fold_num the fold's index.
C3_FailedFoldAllNaN ==
    \A j \in 1..Len(cv_data) :
        NonPartialFailure(FoldOutcome(j)) =>
            /\ cv_data[j].mean_cv_score = NaN
            /\ \A name \in Names(Objectives(cfg)) :
                 /\ ODHas(cv_data[j].all_objective_scores, name)
                 /\ EntryScore(j, name) = NaN
            /\ cfg.error_callback # None =>
                 /\ Cardinality(CallbacksOfPass(j)) = 1
                 /\ \A m \in CallbacksOfPass(j) : callbacks[m].fold_num = j - 1
            /\ cfg.error_callback = None => CallbacksOfPass(j) = {}

\* C3 witness: the second fold failed in scoring with an additional
\* objective configured and an error callback set.
C3_Witness ==
    /\ Len(cv_data) = 2
    /\ FoldOutcome(2).train /\ FoldOutcome(2).exn
    /\ ~Failed(FoldOutcome(1))
    /\ cfg.additional_objectives # <<>>
    /\ cfg.error_callback # None

\* C4: after a PipelineScoreError the fold's entry has NaN for every
\* objective that raised and the obtained score for every objective that was
\* scored, and mean_cv_score is the primary objective's value among them.
C4_PartialScoresKept ==
    \A j \in 1..Len(cv_data) :
        IsPipelineScoreError(FoldOutcome(j)) =>
            /\ \A name \in Names(Objectives(cfg)) :
                 /\ ODHas(cv_data[j].all_objective_scores, name)
                 /\ EntryScore(j, name) =
                      (IF name \in Exceptions(FoldOutcome(j)) THEN NaN
                       ELSE FoldOutcome(j).res[name])
            /\ cv_data[j].mean_cv_score = FoldOutcome(j).res[Primary]

\* C4 witness: in fold 1 the additional objective raised and the primary
\* scored 2; in fold 2 the primary raised and the additional one scored 3.
C4_Witness ==
    /\ Len(cv_data) = 2
    /\ IsPipelineScoreError(FoldOutcome(1))
    /\ Exceptions(FoldOutcome(1)) = {"A"}
    /\ FoldOutcome(1).res[Primary] = 2
    /\ cv_data[1].mean_cv_score = 2
    /\ IsPipelineScoreError(FoldOutcome(2))
    /\ Exceptions(FoldOutcome(2)) = {Primary}
    /\ EntryScore(2, "A") = 3
    /\ cv_data[2].mean_cv_score = NaN

\* The per-fold primary scores of the returned result.
FoldScores == [ j \in 1..Len(result.cv_data) |-> result.cv_data[j].mean_cv_score ]

\* C5: the returned cv_score_mean is the arithmetic mean of the primary
\* scores of all k folds, and it is NaN as soon as one fold's primary score
\* is NaN.
C5_MeanOverAllFolds ==
    (Returned /\ Len(result.cv_data) > 0) =>
        IF \E j \in 1..Len(FoldScores) : FoldScores[j] = NaN
        THEN result.cv_score_mean.nan
        ELSE /\ ~result.cv_score_mean.nan
             /\ result.cv_score_mean.num * Len(FoldScores)
                  = SumSeq(FoldScores) * result.cv_score_mean.den

\* The target values of the caller's target that the rows lack.
MissingIn(rows) == Range(cfg.y) \ Range(Slice(cfg.y, rows))

LacksClass(pair) == MissingIn(pair[1]) # {} \/ MissingIn(pair[2]) # {}

\* C6: for a binary or multiclass problem, once the splitter has emitted a
\* pair whose training or validation slice lacks a target value, the
\* evaluation has raised at that fold: the fold was not trained, the error
\* callback was not called for it, nothing was returned, and no later fold
\* and no holdout pass ran.
C6_MissingClassAborts ==
    \A j \in 1..Len(emitted) :
        (BinaryOrMulticlass(cfg.problem_type) /\ LacksClass(emitted[j])) =>
            /\ Raised
            /\ exc.kind = "missing"
            /\ j = Len(emitted)
            /\ Len(passes) = j - 1
            /\ Len(cv_data) = j - 1
            /\ \A m \in 1..Len(callbacks) : callbacks[m].pass < j
            /\ ~HoldoutPassRan
            /\ result = <<>>

\* C6 witness: the second fold's validation slice lacks a class, after a
\* first fold that was evaluated.
C6_Witness ==
    /\ Len(emitted) = 2
    /\ BinaryOrMulticlass(cfg.problem_type)
    /\ ~LacksClass(emitted[1])
    /\ MissingIn(emitted[2][1]) = {}
    /\ MissingIn(emitted[2][2]) # {}
    /\ Raised
    /\ Len(cv_data) = 1

\* C7: the missing-class error names the missing classes as they appear in
\* the caller's target, for the slice that lacks them.
C7_ErrorNamesCallerClass ==
    (Raised /\ exc.kind = "missing") =>
        /\ exc.train = MissingIn(emitted[Len(emitted)][1])
        /\ exc.valid = MissingIn(emitted[Len(emitted)][2])

\* C8: with holdout data exactly one pass runs besides the k fold passes,
\* after them, trained on the entire training set and scored on the holdout
\* set, and holdout_score and holdout_scores come from it; without holdout
\* data exactly k passes run and both are null.  Only a missing class or a
\* raising error callback ends the evaluation before that.
C8_HoldoutPass ==
    /\ Returned =>
         IF use_holdout
         THEN /\ Len(passes) = Len(emitted) + 1
              /\ \A n \in 1..Len(emitted) : passes[n].score_on = "valid"
              /\ passes[Len(passes)].score_on = "holdout"
              /\ passes[Len(passes)].train = FullIndex(cfg.y)
              /\ result.holdout_score = PassScore(cfg, passes[Len(passes)].outcome)
              /\ result.holdout_scores.kind = "dict"
         ELSE /\ Len(passes) = Len(emitted)
              /\ ~HoldoutPassRan
              /\ result.holdout_score = NoneScore
              /\ result.holdout_scores.kind = "None"
    /\ pc # "start" => (use_holdout <=> (cfg.X_holdout # None /\ cfg.y_holdout # NoY))
    /\ (Raised /\ use_holdout /\ exc.kind \notin {"missing", "callback"}) =>
         HoldoutPassRan

\* C9: every label that occurs in the training target and in the holdout
\* target has the same code in the two re-encoded targets.
C9_SameEncoding ==
    (pc # "start" /\ is_classification(cfg.problem_type) /\ use_holdout) =>
        \A a \in 1..Len(cfg.y) : \A b \in 1..Len(cfg.y_holdout) :
            cfg.y[a] = cfg.y_holdout[b] => full_y_train[a] = y_holdout[b]

\* C10: a fold entry's binary_classification_threshold is the threshold of
\* the pipeline the fold's training fitted when the problem is binary and
\* that threshold is set, and null otherwise (also when training failed).
C10_Threshold ==
    \A j \in 1..Len(cv_data) :
        cv_data[j].binary_classification_threshold =
            (IF is_binary(cfg.problem_type) /\ FoldOutcome(j).train
                /\ FoldOutcome(j).threshold # None
             THEN FoldOutcome(j).threshold ELSE None)

\* C11: fit and threshold tuning are applied to clones only.  No step of an
\* evaluation changes the pipeline object the caller passed in (so it has
\* the fitted state and threshold it started with when the evaluation
\* returns or raises), and a fitted pipeline the evaluation holds is never
\* the caller's object.
C11_CallerPipelineUntouched ==
    /\ [][pipeline' = pipeline]_vars
    /\ [](~pipeline.fitted)
    /\ [](stored_pipeline.fitted => stored_pipeline.id # pipeline.id)

\* C11 witness: a binary evaluation whose caller pipeline has no threshold
\* returned after a fold that failed, a fold whose clone was fitted and
\* tuned to threshold "t1", and a holdout pass that was fitted and tuned.
C11_Witness ==
    /\ Returned
    /\ Len(emitted) = 2
    /\ Len(passes) = 3
    /\ Failed(FoldOutcome(1))
    /\ ~Failed(FoldOutcome(2))
    /\ FoldOutcome(2).threshold = "t1"
    /\ FoldOutcome(3).train
    /\ FoldOutcome(3).threshold = "t1"
    /\ pipeline.threshold = None
    /\ ~pipeline.fitted

\* The passes that were folds.
FoldPasses == { n \in 1..Len(passes) : passes[n].score_on = "valid" }

\* C12: an exception of the error callback is not contained.  When the
\* callback raised while handling the failure of a pass, the evaluation has
\* raised and returned nothing, that pass is the last one that ran (no later
\* fold was emitted, no holdout pass followed a fold), and no entry was
\* appended to cv_data for it.
C12_CallbackErrorPropagates ==
    exc.kind = "callback" =>
        /\ Raised
        /\ result = <<>>
        /\ callbacks # <<>>
        /\ callbacks[Len(callbacks)].pass = Len(passes)
        /\ Failed(passes[Len(passes)].outcome)
        /\ Len(emitted) = Cardinality(FoldPasses)
        /\ IF passes[Len(passes)].score_on = "valid"
           THEN Len(cv_data) = Len(emitted) - 1 /\ ~HoldoutPassRan
           ELSE Len(cv_data) = Len(emitted)

\* C12 witness: with holdout data supplied and fewer folds emitted than the
\* splitter can emit, the callback raised in the second fold after a first
\* fold that was evaluated.
C12_Witness ==
    /\ exc.kind = "callback"
    /\ Raised
    /\ use_holdout
    /\ Len(emitted) = 2
    /\ Len(emitted) <= MaxFolds
    /\ passes[2].score_on = "valid"
    /\ Len(cv_data) = 1
    /\ ~Failed(FoldOutcome(1))

\* C13: every write_to_logger call made exactly one call on L per entry
\* that was buffered, in the order the entries were logged, each with the
\* entry's message: an info, debug or warning entry went to the method of
\* that name, an error entry to L.warning, and L.error was never called.
C13_WriteInOrderErrorAsWarning ==
    \A w \in 1..Len(writes) :
        /\ writes[w].entries = SubSeq(sent[writes[w].job], 1, writes[w].logged)
        /\ Len(writes[w].calls) = Len(writes[w].entries)
        /\ \A n \in 1..Len(writes[w].entries) :
             LET level == writes[w].entries[n][1]
                 made == writes[w].calls[n]
             IN  /\ made.msg = writes[w].entries[n][2]
                 /\ level \in {"info", "debug", "warning"} => made.method = level
                 /\ level = "error" => made.method = "warning"
                 /\ made.method # "error"

\* C13 witness: after info, error and debug calls, in that order, a
\* write_to_logger call delivered the three entries.
C13_Witness ==
    \E w \in 1..Len(writes) :
        /\ Len(writes[w].entries) = 3
        /\ writes[w].entries[1][1] = "info"
        /\ writes[w].entries[2][1] = "error"
        /\ writes[w].entries[3][1] = "debug"
        /\ Len(writes[w].calls) = 3

\* C14: every setup_job_log call returned a new JobLogger with an empty
\* buffer: no two jobs hold the same logger, and under every interleaving
\* of the jobs' log calls the buffer of a job's logger holds exactly the
\* messages that job logged, in its call order (so it is empty before the
\* job's first log call and holds no message of another job).
C14_OwnBufferPerJob ==
    /\ \A j, k \in Jobs :
         (j # k /\ job_logger[j] # 0) => job_logger[j] # job_logger[k]
    /\ \A j \in Jobs :
         job_logger[j] # 0 =>
            /\ job_logger[j] \in 1..Len(loggers)
            /\ loggers[job_logger[j]] = sent[j]
            /\ \A n \in 1..Len(loggers[job_logger[j]]) :
                 loggers[job_logger[j]][n][2][1] = j
    /\ \A j \in Jobs : job_logger[j] = 0 => sent[j] = <<>>

\* C14 witness: job "a" logged, then job "b", then job "a" again.
C14_Witness ==
    /\ job_logger["a"] # 0
    /\ job_logger["b"] # 0
    /\ Len(sent["a"]) = 2
    /\ Len(sent["b"]) = 1
    /\ Len(loggers[job_logger["a"]]) = 2
    /\ Len(loggers[job_logger["b"]]) = 1

\* The number of calls on L, over all write_to_logger calls of job j, that
\* delivered the job's n-th message.
Deliveries(j, n) ==
    SumSeq([ w \in 1..Len(writes) |->
               IF writes[w].job = j
               THEN Cardinality({ c \in 1..Len(writes[w].calls) :
                                    writes[w].calls[c].msg = <<j, n>> })
               ELSE 0 ])

\* C19: write_to_logger drains the buffer.  No entry is delivered to L more
\* than once, and a write_to_logger call on a logger that follows another
\* one with no log call in between makes no call on L.
C19_DeliveredOnce ==
    /\ \A j \in Jobs : \A n \in 1..Len(sent[j]) : Deliveries(j, n) <= 1
    /\ \A v, w \in 1..Len(writes) :
         (v < w /\ writes[v].job = writes[w].job
                /\ writes[v].logged = writes[w].logged) =>
            writes[w].calls = <<>>

\* The passes trained on the rows t that succeeded completely.
SucceededOn(t) ==
    { n \in 1..Len(passes) : passes[n].train = t /\ ~Failed(passes[n].outcome) }

Latest(S) == CHOOSE n \in S : \A m \in S : m <= n

\* C15: passes whose training slices have the same row-index sequence have
\* the same cache key; the cache holds one entry per key, and the entry
\* under the key of a pass is the fitted components of the latest pass on
\* those rows that succeeded (pass n fits the clone numbered n).  The
\* returned cached_data is that cache.
C15_OneEntryPerTrainingRows ==
    /\ \A m, n \in 1..Len(passes) :
         passes[m].train = passes[n].train =>
            XHash(passes[m].train) = XHash(passes[n].train)
    /\ \A a, b \in 1..Len(pipeline_cache) :
         a # b => pipeline_cache[a][1] # pipeline_cache[b][1]
    /\ \A n \in 1..Len(passes) :
         SucceededOn(passes[n].train) # {} =>
            /\ ODHas(pipeline_cache, XHash(passes[n].train))
            /\ ODGet(pipeline_cache, XHash(passes[n].train))
                 = Latest(SucceededOn(passes[n].train))
    /\ Returned => result.cached_data = pipeline_cache

\* C15 witness: two folds trained on the same rows both succeeded, and the
\* returned cache has one entry, the second fold's.
C15_Witness ==
    /\ Returned
    /\ Len(passes) = 2
    /\ passes[1].train = passes[2].train
    /\ ~Failed(FoldOutcome(1))
    /\ ~Failed(FoldOutcome(2))
    /\ Len(result.cached_data) = 1
    /\ result.cached_data[1][2] = 2

\* C16: train_pipeline and score_pipeline contain nothing.  An exception of
\* fit, of the threshold tuning or of score leaves the call as it was
\* raised, nothing is returned in its place (no NaN score), and the error
\* callback is not called; train_pipeline calls the threshold tuning only
\* after fit has returned.
C16_NoContainment ==
    /\ call.callback_calls = 0
    /\ call.op = "train_pipeline" =>
         LET n == Len(call.trace)
         IN  /\ call.input.fit # "ok" =>
                    /\ call.raised = call.input.fit
                    /\ call.trace[n] = "fit"
                    /\ \A k \in 1..n : call.trace[k] # "tune_binary_threshold"
             /\ (call.input.fit = "ok" /\ call.input.tune # "ok") =>
                    /\ call.raised = call.input.tune
                    /\ call.trace[n] = "tune_binary_threshold"
                    /\ call.trace[n - 1] = "fit"
             /\ (call.input.fit = "ok" /\ call.input.tune = "ok") =>
                    /\ call.raised = "none"
                    /\ call.value.pipeline.fitted
                    /\ call.value.pipeline.id # call.input.pipeline.id
             /\ call.raised # "none" => call.value.hash = NoHash
    /\ call.op = "score_pipeline" =>
         LET o == call.input.outcome
         IN  /\ o.exn => call.raised = "ScoreError" /\ call.value = <<>>
             /\ (~o.exn /\ Exceptions(o) # {}) =>
                    call.raised = "PipelineScoreError" /\ call.value = <<>>
             /\ (~o.exn /\ Exceptions(o) = {}) =>
                    /\ call.raised = "none"
                    /\ \A k \in 1..Len(call.value) :
                         call.value[k][2] = o.res[call.value[k][1]]

\* C16 witness: a train_pipeline call whose fit succeeded and whose tuning
\* raised.
C16_Witness ==
    /\ call.op = "train_pipeline"
    /\ call.input.fit = "ok"
    /\ call.input.tune = "TuneError"
    /\ call.raised = "TuneError"

\* C17: the keys of every fold entry's all_objective_scores are, in this
\* order, the primary objective's name, the additional objectives as
\* configured, "# Training" and "# Validation", whether the fold succeeded,
\* failed or failed partially; the two counts are the sizes of the fold's
\* training and validation slices.
C17_KeyOrder ==
    \A j \in 1..Len(cv_data) :
        LET scores == cv_data[j].all_objective_scores
        IN  /\ ODKeys(scores)
                 = <<Primary>> \o cfg.additional_objectives
                     \o <<"# Training", "# Validation">>
            /\ scores[Len(scores) - 1][2] = Len(emitted[j][1])
            /\ scores[Len(scores)][2] = Len(emitted[j][2])

\* C17 witness: with an additional objective configured, a fold whose
\* training failed and a fold in which only the primary objective failed to
\* score have entries.
C17_Witness ==
    /\ cfg.additional_objectives = <<"A">>
    /\ Len(cv_data) = 2
    /\ ~FoldOutcome(1).train
    /\ IsPipelineScoreError(FoldOutcome(2))
    /\ Exceptions(FoldOutcome(2)) = {Primary}

\* The log messages of the holdout pass: those after "Training and scoring
\* entire dataset".
HoldoutMessages ==
    { m \in 1..Len(logs) :
        \E h \in 1..(m - 1) : logs[h].text = "Training and scoring entire dataset" }

\* C18: the holdout pass is not reported as a fold.  Whatever the number of
\* folds (zero included, where the pass still runs), none of its log
\* messages has a "Fold n" prefix, its training and scoring messages have
\* the prefix "Full training data pipeline", and an error callback call
\* made for it has fold_num None.
C18_HoldoutNotAFold ==
    /\ \A m \in HoldoutMessages :
         /\ logs[m].prefix.kind # "Fold"
         /\ logs[m].text = "starting training" =>
                logs[m].prefix.kind = "Full training data pipeline"
    /\ \A n \in 1..Len(passes) :
         passes[n].score_on = "holdout" =>
            \A m \in CallbacksOfPass(n) : callbacks[m].fold_num = FoldNone
    /\ exc.kind # "NameError"

\* C20: only a pass that succeeds completely writes the cache.  At every
\* point the cache's keys are exactly the training-row hashes of the passes
\* (folds and holdout) whose training and whose scoring of every objective
\* succeeded, the returned cached_data has these keys, and a step in which a
\* pass fails (in training, in scoring, or for some objectives) leaves the
\* cache as it was.
C20_CacheOfSuccessfulPasses ==
    /\ [](Range(ODKeys(pipeline_cache))
            = { XHash(passes[n].train) :
                  n \in { m \in 1..Len(passes) : ~Failed(passes[m].outcome) } })
    /\ [](Returned => result.cached_data = pipeline_cache)
    /\ [][(Len(passes') = Len(passes) + 1 /\ Failed(passes'[Len(passes')].outcome))
            => pipeline_cache' = pipeline_cache]_vars

\* C20 witness: a returned evaluation with a fold that succeeded, a fold on
\* other rows that failed partially and a holdout pass that succeeded: the
\* cache has the two keys of the first fold and of the holdout pass.
C20_Witness ==
    /\ Returned
    /\ Len(passes) = 3
    /\ ~Failed(FoldOutcome(1))
    /\ IsPipelineScoreError(FoldOutcome(2))
    /\ passes[2].train # passes[1].train
    /\ passes[3].score_on = "holdout"
    /\ ~Failed(FoldOutcome(3))
    /\ ODKeys(result.cached_data) = <<passes[1].train, passes[3].train>>

\* C21: the "pipeline" field of a returned result is determined by the last
\* pass alone, which is the holdout pass exactly when holdout data was
\* supplied.  It is the clone that pass fitted (pass n fits the clone
\* numbered n) when its training succeeded, and the caller's own, unfitted
\* pipeline object when its training failed or when no pass ran, whatever
\* the earlier passes did.
C21_PipelineOfLastPass ==
    Returned =>
        IF passes = <<>> THEN result.pipeline = pipeline
        ELSE LET n == Len(passes)
                 o == passes[n].outcome
             IN  /\ use_holdout <=> passes[n].score_on = "holdout"
                 /\ o.train =>
                      /\ result.pipeline
                           = [id |-> n, fitted |-> TRUE, threshold |-> o.threshold]
                      /\ result.pipeline.id # pipeline.id
                 /\ ~o.train =>
                      /\ result.pipeline = pipeline
                      /\ ~result.pipeline.fitted

\* C21 witness: the first fold trained and scored, the training of the
\* second and last fold failed, and the returned pipeline is the caller's.
C21_Witness ==
    /\ Returned
    /\ ~use_holdout
    /\ Len(passes) = 2
    /\ ~Failed(FoldOutcome(1))
    /\ ~FoldOutcome(2).train
    /\ result.pipeline = pipeline

====
